---- MODULE Spec2Model ----
(***************************************************************************)
(* Model of the target registry, the dependency resolver and the           *)
(* sequential executor of src/cli.js (target, pick_target_and_dependencies, *)
(* evaluate).                                                              *)
(*                                                                         *)
(* A target record is [name, depends, action, options]; `action` is the    *)
(* identity of the function object given to target() (the serial number of *)
(* the registration that supplied it), `options` is [target_path |-> p].   *)
(* What an action does when it is invoked (returns, returns a promise,     *)
(* throws) is an input of the environment, drawn when it is invoked.       *)
(***************************************************************************)
EXTENDS Integers, Sequences, FiniteSets, TLC

\* ------------------------------------------------------------------ bounds
MaxDeps == 2        \* longest depends sequence given to target()
MaxRequest == 2     \* longest target_names sequence given to evaluate()
MaxRegs == 3        \* number of target() calls made by the makefile

\* ------------------------------------------------------------ input domains
\* Names are registered in the order of NameOrder: names are labels only, so
\* every registry is a renaming of one that was filled in this order.
NameOrder == <<"a", "b", "c">>
Names == {NameOrder[i] : i \in 1..Len(NameOrder)}
Unknown == "x"                      \* a name that is never registered
AllNames == Names \cup {Unknown}

Range(s) == {s[i] : i \in 1..Len(s)}
SeqsUpTo(S, n) == UNION {[1..k -> S] : k \in 0..n}

\* --------------------------------------------------------- file system model
\* A directory is the sequence of its path segments from the root.
StartDir == <<"w">>
Dirs == {<< >>, <<"w">>, <<"w", "sub">>, <<"tmp">>}

\* A path given as options.target_path.  The empty relative path stands for
\* an absent (undefined) or empty target_path: both are falsy at line 144.
NoPath == [abs |-> FALSE, segs |-> << >>]
Sub == [abs |-> FALSE, segs |-> <<"sub">>]
Up == [abs |-> FALSE, segs |-> <<"..">>]
Tmp == [abs |-> TRUE, segs |-> <<"tmp">>]
NoSuch == [abs |-> FALSE, segs |-> <<"nosuch">>]

RECURSIVE Normalize(_, _)
Normalize(done, rest) ==
    IF rest = << >> THEN done
    ELSE IF Head(rest) = ".."
         THEN Normalize(IF done = << >> THEN done ELSE SubSeq(done, 1, Len(done) - 1),
                        Tail(rest))
         ELSE Normalize(Append(done, Head(rest)), Tail(rest))

\* path.resolve as process.chdir applies it: an absolute path replaces the
\* working directory, a relative one is appended to it.
Resolve(dir, p) == IF p.abs THEN Normalize(<< >>, p.segs) ELSE Normalize(dir, p.segs)

\* ------------------------------------------------------------------- errors
NoError == [kind |-> "none", name |-> ""]
UnknownTargetError(n) == [kind |-> "dont_know_how_to_build", name |-> n]
ChdirError == [kind |-> "chdir", name |-> "ENOENT"]
ActionErrors == {[kind |-> "action", name |-> e] : e \in {"E1", "E2"}}

\* -------------------------------------------------------------------- state
VARIABLES
    all_targets,     \* the registry: records in key (insertion) order
    registrations,   \* number of target() calls so far
    cwd,             \* process.cwd()
    calls,           \* the evaluate() calls: call id -> call record
    returned         \* the record the latest target() call returned

vars == <<all_targets, registrations, cwd, calls, returned>>

\* The value of `returned` before target() has been called.
NoTarget ==
    [name |-> "", depends |-> << >>, action |-> 0,
     options |-> [target_path |-> NoPath]]

IdleCall ==
    [status |-> "idle", target_names |-> << >>, required |-> << >>,
     entry_cwd |-> << >>, ran |-> << >>, pending |-> {}, fulfilled |-> {},
     thrown |-> NoError, thrown_by |-> 0, thrown_how |-> "none",
     error |-> NoError]

Init ==
    /\ all_targets = << >>
    /\ registrations = 0
    /\ cwd = StartDir
    /\ calls = [c \in {1} |-> IdleCall]
    /\ returned = NoTarget

\* ----------------------------------------------------------------- registry
\* Object.keys(all_targets): the names in insertion order.
Keys == [i \in 1..Len(all_targets) |-> all_targets[i].name]

Has(target_name) == \E i \in 1..Len(all_targets) : all_targets[i].name = target_name

\* all_targets[target_name], for a name the registry holds.
Lookup(target_name) ==
    all_targets[CHOOSE i \in 1..Len(all_targets) : all_targets[i].name = target_name]

\* A store that merges into an entry it already holds: the depends of the
\* earlier record are kept in front of the new ones.
StoreMerging(registry, rtn) ==
    IF \E i \in 1..Len(registry) : registry[i].name = rtn.name
    THEN [i \in 1..Len(registry) |->
             IF registry[i].name = rtn.name
             THEN [rtn EXCEPT !.depends = registry[i].depends \o @]
             ELSE registry[i]]
    ELSE Append(registry, rtn)

\* all_targets[rtn.name] = rtn: a new key is appended to the key order, an
\* existing key keeps its place and gets the new record.
Store(registry, rtn) ==
    IF \E i \in 1..Len(registry) : registry[i].name = rtn.name
    THEN [i \in 1..Len(registry) |->
             IF registry[i].name = rtn.name THEN rtn ELSE registry[i]]
    ELSE Append(registry, rtn)

\* target({name, depends, options, action})
target(name, depends, options) ==
    LET rtn == [name |-> name, depends |-> depends,
                action |-> registrations + 1, options |-> options]
    IN  /\ all_targets' = Store(all_targets, rtn)
        /\ returned' = rtn
        /\ registrations' = registrations + 1
        /\ UNCHANGED <<cwd, calls>>

\* ----------------------------------------------------------------- resolver
\* pick_target_and_dependencies(target_name, picked).  The result is the
\* returned list, the picked set as the call leaves it, and the error thrown
\* (NoError when it returns).  PickEach is the forEach over a list of names
\* that appends each result; a throw ends it.
RECURSIVE pick_target_and_dependencies(_, _)
RECURSIVE PickEach(_, _)

\* A resolver that passes over a name it does not know instead of throwing.
pick_skipping_unknown(target_name, picked) ==
    IF Has(target_name) /\ target_name \notin picked
    THEN LET t == Lookup(target_name)
             deps == PickEach(t.depends, picked \cup {target_name})
         IN  [rtn |-> Append(deps.rtn, t), picked |-> deps.picked, error |-> NoError]
    ELSE [rtn |-> << >>, picked |-> picked, error |-> NoError]

\* A resolver whose else branch throws for every name it does not add, a name
\* already picked included.
pick_throwing_picked(target_name, picked) ==
    IF Has(target_name) /\ target_name \notin picked
    THEN LET t == Lookup(target_name)
             deps == PickEach(t.depends, picked \cup {target_name})
         IN  IF deps.error # NoError THEN deps
             ELSE [rtn |-> Append(deps.rtn, t), picked |-> deps.picked,
                   error |-> NoError]
    ELSE [rtn |-> << >>, picked |-> picked,
          error |-> UnknownTargetError(target_name)]

pick_target_and_dependencies(target_name, picked) ==
    IF Has(target_name) /\ target_name \notin picked
    THEN LET t == Lookup(target_name)
             deps == PickEach(t.depends, picked \cup {target_name})
         IN  IF deps.error # NoError THEN deps
             ELSE [rtn |-> Append(deps.rtn, t), picked |-> deps.picked,
                   error |-> NoError]
    ELSE IF ~Has(target_name)
         THEN [rtn |-> << >>, picked |-> picked,
               error |-> UnknownTargetError(target_name)]
         ELSE [rtn |-> << >>, picked |-> picked, error |-> NoError]

\* A forEach whose iterations each start from the picked set of its caller:
\* what one dependency picked is not seen by the next.
PickEachUnshared(names, picked) ==
    IF names = << >> THEN [rtn |-> << >>, picked |-> picked, error |-> NoError]
    ELSE LET first == pick_target_and_dependencies(Head(names), picked)
         IN  IF first.error # NoError THEN first
             ELSE LET rest == PickEach(Tail(names), picked)
                  IN  IF rest.error # NoError THEN rest
                      ELSE [rtn |-> first.rtn \o rest.rtn,
                            picked |-> first.picked \cup rest.picked,
                            error |-> NoError]

PickEach(names, picked) ==
    IF names = << >> THEN [rtn |-> << >>, picked |-> picked, error |-> NoError]
    ELSE LET first == pick_target_and_dependencies(Head(names), picked)
         IN  IF first.error # NoError THEN first
             ELSE LET rest == PickEach(Tail(names), first.picked)
                  IN  IF rest.error # NoError THEN rest
                      ELSE [rtn |-> first.rtn \o rest.rtn, picked |-> rest.picked,
                            error |-> NoError]

\* A selection that takes every registered key whatever was asked for.
SelectedAll(target_names) == Keys

\* target_keys.filter(...): the registered keys that target_names names, or
\* all of them for an empty target_names, in key order.
Selected(target_names) ==
    SelectSeq(Keys, LAMBDA key : Len(target_names) = 0 \/ key \in Range(target_names))

\* The list `required` that evaluate builds (or the error thrown on the way).
Required(target_names) == PickEach(Selected(target_names), {})

\* ----------------------------------------------------------------- executor
\* evaluate(target_names), up to the return of the promise: lines 127-157
\* run synchronously.  A throw of the resolver inside the promise executor
\* rejects the promise; an empty `required` leaves task_chain resolved.
evaluate(c, target_names) ==
    /\ calls[c].status = "idle"
    /\ LET res == Required(target_names)
           entered == [calls[c] EXCEPT !.target_names = target_names,
                                       !.entry_cwd = cwd]
       IN  calls' = [calls EXCEPT ![c] =
               IF res.error # NoError
               THEN [entered EXCEPT !.status = "rejected", !.error = res.error]
               ELSE IF res.rtn = << >>
                    THEN [entered EXCEPT !.status = "resolved"]
                    ELSE [entered EXCEPT !.status = "running",
                                         !.required = res.rtn]]
    /\ UNCHANGED <<all_targets, registrations, cwd, returned>>

\* Links that do not wait for the links before them.
ChainReadyAlways(call, i) == TRUE

\* A chain in which only the first link ever runs.
ChainReadyFirstOnly(call, i) == i = 1

\* task_chain = task_chain.then(...): the link of required[i] runs once the
\* promise of every earlier link has been fulfilled.
ChainReady(call, i) == \A j \in 1..(i - 1) : j \in call.fulfilled

\* A switch that resolves target_path against the start directory of the
\* process instead of the current working directory.
SwitchDirFromStart(dir, target_path) ==
    IF target_path # NoPath THEN Resolve(StartDir, target_path) ELSE dir

\* Lines 144-145: the directory the action is invoked in.
SwitchDir(dir, target_path) ==
    IF target_path # NoPath THEN Resolve(dir, target_path) ELSE dir

\* Callbacks that leave the working directory where the action ran.
RestoreDirNever(dir, current_dir, target_path) == dir

\* Lines 147-148 and 151-152: the directory after the action has settled.
RestoreDir(dir, current_dir, target_path) ==
    IF target_path # NoPath THEN current_dir ELSE dir

\* A rejection that wraps the error in a new one.
RejectionWrapped(error) == [kind |-> "make_failed", name |-> error.name]

\* reject_action(error); reject(error): the value evaluate rejects with.
Rejection(error) == error

\* A link that reads the registry again when it runs.
LinkTargetLate(call, i) ==
    IF Has(call.required[i].name) THEN Lookup(call.required[i].name)
    ELSE call.required[i]

\* Line 140: the record `target` that the link of required[i] closes over.
LinkTarget(call, i) == call.required[i]

\* A switch whose failure goes unnoticed.
CanEnterAlways(dir) == TRUE

\* Line 145: process.chdir succeeds for a directory that exists and throws
\* otherwise.
CanEnter(dir) == dir \in Dirs

\* Lines 141-146, the link of the next target of call c: save the working
\* directory, switch, invoke the action.  The action returns a value, returns
\* a promise, or throws; process.chdir throws for a path that is no directory.
\* A throw inside the promise executor rejects the link, and so the chain.
StartTarget(c) ==
    LET call == calls[c]
        i == Len(call.ran) + 1
    IN  /\ call.status = "running"
        /\ i <= Len(call.required)
        /\ ChainReady(call, i)
        /\ LET t == LinkTarget(call, i)
               current_dir == cwd
               dir == SwitchDir(cwd, t.options.target_path)
           IN  IF ~CanEnter(dir)
               THEN /\ calls' = [calls EXCEPT ![c] =
                           [call EXCEPT !.status = "rejected",
                                        !.error = Rejection(ChdirError)]]
                    /\ UNCHANGED cwd
               ELSE /\ cwd' = dir
                    /\ \E outcome \in {"value", "promise", "throw"} :
                        LET invoked == [call EXCEPT !.ran = Append(@,
                                [at |-> dir, current_dir |-> current_dir,
                                 action |-> t.action])]
                        IN  IF outcome = "throw"
                            THEN \E e \in ActionErrors :
                                   calls' = [calls EXCEPT ![c] =
                                       [invoked EXCEPT !.status = "rejected",
                                                       !.thrown = e,
                                                       !.thrown_by = i,
                                                       !.thrown_how = "throw",
                                                       !.error = Rejection(e)]]
                            ELSE calls' = [calls EXCEPT ![c] =
                                   [invoked EXCEPT !.pending = @ \cup
                                       {[index |-> i, kind |-> outcome,
                                         current_dir |-> current_dir]}]]
        /\ UNCHANGED <<all_targets, registrations, returned>>

\* Lines 146-149 and 158-159: the action's result is fulfilled; the working
\* directory is restored and the link accepted.  Fulfilling the last link
\* fulfils task_chain, which accepts the promise of evaluate.
ActionFulfilled(c) ==
    LET call == calls[c]
    IN  /\ call.status = "running"
        /\ \E p \in call.pending :
            LET t == LinkTarget(call, p.index)
                done == [call EXCEPT !.pending = @ \ {p},
                                     !.fulfilled = @ \cup {p.index}]
            IN  /\ cwd' = RestoreDir(cwd, p.current_dir, t.options.target_path)
                /\ calls' = [calls EXCEPT ![c] =
                       IF p.index = Len(call.required)
                       THEN [done EXCEPT !.status = "resolved"]
                       ELSE done]
        /\ UNCHANGED <<all_targets, registrations, returned>>

\* Lines 150-153 and 160-161: the promise the action returned is rejected; the
\* working directory is restored, the link rejects, the later links are
\* skipped and evaluate rejects.
ActionRejected(c) ==
    LET call == calls[c]
    IN  /\ call.status = "running"
        /\ \E p \in call.pending, e \in ActionErrors :
            LET t == LinkTarget(call, p.index)
            IN  /\ p.kind = "promise"
                /\ cwd' = RestoreDir(cwd, p.current_dir, t.options.target_path)
                /\ calls' = [calls EXCEPT ![c] =
                       [call EXCEPT !.pending = @ \ {p},
                                    !.status = "rejected",
                                    !.thrown = e,
                                    !.thrown_by = p.index,
                                    !.thrown_how = "reject",
                                    !.error = Rejection(e)]]
        /\ UNCHANGED <<all_targets, registrations, returned>>

\* -------------------------------------------------------------- environment
\* The names a makefile may register next: a registered name again, or the
\* next fresh name.
RegisterableNames ==
    Range(Keys) \cup (IF Len(all_targets) < Len(NameOrder)
                      THEN {NameOrder[Len(all_targets) + 1]} ELSE {})

DependsChoices == SeqsUpTo(AllNames, MaxDeps)
RequestChoices == SeqsUpTo(AllNames, MaxRequest)

\* execute(), line 24: the makefile module declares its targets before
\* evaluate is called (line 51).
Makefile(depends_choices, path_choices) ==
    /\ registrations < MaxRegs
    /\ \A c \in DOMAIN calls : calls[c].status = "idle"
    /\ \E name \in RegisterableNames, depends \in depends_choices,
          target_path \in path_choices :
            target(name, depends, [target_path |-> target_path])

\* Targets without target_path, with every shape of depends.
Declare == Makefile(DependsChoices, {NoPath})

\* execute(), line 51: evaluate is called with the names of the command line.
Request == \E c \in DOMAIN calls, target_names \in RequestChoices :
               evaluate(c, target_names)

Start == \E c \in DOMAIN calls : StartTarget(c)
Fulfil == \E c \in DOMAIN calls : ActionFulfilled(c)
Reject == \E c \in DOMAIN calls : ActionRejected(c)

Next == Declare \/ Request \/ Start \/ Fulfil \/ Reject

Spec == Init /\ [][Next]_vars

\* Targets with every target_path, declared with at most one dependency.
ChainChoices == {<< >>, <<"a">>}
PathChoices == {NoPath, Sub, Up, Tmp, NoSuch}
DeclareWithPath == Makefile(ChainChoices, PathChoices)

NextDir == DeclareWithPath \/ Request \/ Start \/ Fulfil \/ Reject

\* The process may be started in any directory.
InitDir ==
    /\ all_targets = << >>
    /\ registrations = 0
    /\ cwd \in Dirs
    /\ calls = [c \in {1} |-> IdleCall]
    /\ returned = NoTarget

SpecDir == InitDir /\ [][NextDir]_vars

\* Targets without target_path that list at most one name.
ShortChoices == SeqsUpTo(AllNames, 1)
DeclareShort == Makefile(ShortChoices, {NoPath})

NextLive == DeclareShort \/ Request \/ Start \/ Fulfil \/ Reject

\* A link that is ready runs (its callback is queued by the promise it waits
\* for), and an action that has been invoked settles in the end.
SpecLive ==
    /\ Init
    /\ [][NextLive]_vars
    /\ WF_vars(Start)
    /\ WF_vars(Fulfil \/ Reject)

\* A call whose promise has been accepted or rejected.
Settled(call) == call.status \in {"resolved", "rejected"}

\* Two evaluate calls.
InitTwo ==
    /\ all_targets = << >>
    /\ registrations = 0
    /\ cwd = StartDir
    /\ calls = [c \in {1, 2} |-> IdleCall]
    /\ returned = NoTarget

DeclareChain == Makefile(ChainChoices, {NoPath})
SingleChoices == SeqsUpTo(AllNames, 1)

\* An action that is in progress calls target(): it declares a new name or
\* declares a registered name again.
RegisterInAction ==
    /\ registrations < MaxRegs
    /\ \E c \in DOMAIN calls : calls[c].pending # {}
    /\ \E name \in RegisterableNames, depends \in ChainChoices :
           target(name, depends, [target_path |-> NoPath])

\* The second evaluate is called once the first has settled.
RequestInTurn ==
    \E target_names \in SingleChoices :
        \/ evaluate(1, target_names)
        \/ Settled(calls[1]) /\ evaluate(2, target_names)

NextSnapshot ==
    DeclareChain \/ RegisterInAction \/ RequestInTurn \/ Start \/ Fulfil \/ Reject

SpecSnapshot == InitTwo /\ [][NextSnapshot]_vars

\* Targets with every target_path and no dependency.
DeclareAlone == Makefile({<< >>}, PathChoices)

\* The second evaluate is called while a promise returned by an action of the
\* first is pending.
RequestOverlapping ==
    \E target_names \in SingleChoices :
        \/ evaluate(1, target_names)
        \/ /\ \E p \in calls[1].pending : p.kind = "promise"
           /\ evaluate(2, target_names)

NextOverlap == DeclareAlone \/ RequestOverlapping \/ Start \/ Fulfil \/ Reject

SpecOverlap == InitTwo /\ [][NextOverlap]_vars

\* --------------------------------------------------------------- vocabulary
Registered == Range(Keys)

\* The names of a list of target records.
NamesOf(list) == [i \in 1..Len(list) |-> list[i].name]

\* The targets whose action call has invoked, in the order of invocation.
Invoked(call) == SubSeq(NamesOf(call.required), 1, Len(call.ran))


\* The registered names a call asks for.
Roots(target_names) ==
    IF target_names = << >> THEN Registered ELSE Range(target_names) \cap Registered

\* The dependency closure of a set of registered names: the names themselves
\* and every registered name reachable over depends.
RECURSIVE Closure(_)
Closure(S) ==
    LET more == S \cup {d \in Registered : \E n \in S : d \in Range(Lookup(n).depends)}
    IN  IF more = S THEN S ELSE Closure(more)

\* The names some target of the closure lists in depends without their being
\* registered.
MissingDeps(S) ==
    {d \in AllNames : ~Has(d) /\ \E n \in Closure(S) : d \in Range(Lookup(n).depends)}

\* ------------------------------------------------------------------- claims

\* C1: in the ordered list evaluate builds, every target comes after each
\* name of its depends that is in the list, for every registry, cyclic ones
\* and targets that list themselves included.
DependencyOrdering ==
    \A c \in DOMAIN calls :
        LET required == calls[c].required
        IN  \A i, j \in 1..Len(required) :
                required[j].name \in Range(required[i].depends) => j < i

\* The depends edges among registered names have no cycle when no registered
\* name reaches itself over one or more edges.
DependsOf(n) == Range(Lookup(n).depends) \cap Registered
Acyclic == \A n \in Registered : n \notin Closure(DependsOf(n))

\* The ordering that does hold: it holds of every list built from a registry
\* without a dependency cycle.
DependencyOrderingAcyclic == Acyclic => DependencyOrdering

\* A list of three targets built from an acyclic registry in which the last
\* target lists both others and the second lists the first.
DependencyOrderingReached ==
    \E c \in DOMAIN calls :
        LET required == calls[c].required
        IN  /\ Acyclic
            /\ Len(required) = 3
            /\ required[1].name \in Range(required[2].depends)
            /\ {required[1].name, required[2].name} \subseteq Range(required[3].depends)

\* C2: evaluate called with a non-empty target_names holding a name that is
\* not registered rejects with the unknown-target error naming it, and no
\* action is invoked.
UnknownRootRejected ==
    \A c \in DOMAIN calls :
        LET call == calls[c]
        IN  (call.status # "idle" /\ Range(call.target_names) \ Registered # {})
            => /\ call.status = "rejected"
               /\ \E X \in Range(call.target_names) \ Registered :
                      call.error = UnknownTargetError(X)
               /\ call.ran = << >>

\* C3: when a target reachable from the requested roots lists a name that is
\* not registered, evaluate rejects with the error naming such a name and no
\* action has been invoked.
UnknownDependencyRejected ==
    \A c \in DOMAIN calls :
        LET call == calls[c]
            missing == MissingDeps(Roots(call.target_names))
        IN  (call.status # "idle" /\ missing # {})
            => /\ call.status = "rejected"
               /\ call.error \in {UnknownTargetError(X) : X \in missing}
               /\ call.ran = << >>
               /\ call.required = << >>

\* A call rejected for a missing dependency of a target that is itself a
\* dependency, after another requested root had resolved completely.
UnknownDependencyReached ==
    \E c \in DOMAIN calls :
        LET call == calls[c]
        IN  /\ call.status = "rejected"
            /\ call.error.kind = "dont_know_how_to_build"
            /\ Len(call.target_names) = 2
            /\ Range(call.target_names) \subseteq Registered
            /\ \E r \in Range(call.target_names) :
                   /\ r = Keys[1]
                   /\ MissingDeps({r}) = {}
            /\ \E r \in Range(call.target_names), m \in Registered \ Range(call.target_names) :
                   /\ m \in Range(Lookup(r).depends)
                   /\ call.error.name \in Range(Lookup(m).depends)

\* C4: once the action of a target with target_path has settled, whatever its
\* outcome (a value, a fulfilled promise, a rejected promise, a synchronous
\* throw), the working directory is the one saved before that target's
\* switch.
RestoredOnEveryExit ==
    \A c \in DOMAIN calls :
        LET call == calls[c]
        IN  (call.ran # << >> /\ call.pending = {})
            => cwd = call.ran[Len(call.ran)].current_dir

\* C5: when the action of the k-th target of the list is the first to fail,
\* the actions of the first k targets are the only ones invoked, each once,
\* and evaluate rejects with the very error that action produced.
FailFastAbort ==
    \A c \in DOMAIN calls :
        LET call == calls[c]
        IN  call.thrown_by > 0
            => /\ call.status = "rejected"
               /\ Len(call.ran) = call.thrown_by
               /\ call.pending = {}
               /\ call.fulfilled = 1..(call.thrown_by - 1)
               /\ call.error = call.thrown

\* The second of three targets failed.
FailFastAbortReached ==
    \E c \in DOMAIN calls :
        /\ calls[c].thrown_by = 2
        /\ Len(calls[c].required) = 3
        /\ calls[c].status = "rejected"

\* C6: an action of the list is invoked only after the actions of all targets
\* before it have settled, and no two actions of one call are pending at once.
SequentialExecution ==
    \A c \in DOMAIN calls :
        LET call == calls[c]
        IN  /\ Cardinality(call.pending) <= 1
            /\ \A i \in 1..Len(call.ran) : \A j \in 1..(i - 1) :
                   /\ j \in call.fulfilled
                   /\ \A p \in call.pending : p.index # j

\* The third action is pending after the first two have settled.
SequentialExecutionReached ==
    \E c \in DOMAIN calls :
        /\ Len(calls[c].ran) = 3
        /\ \E p \in calls[c].pending : p.index = 3 /\ p.kind = "promise"

\* C7: every target is in the ordered list at most once and its action is
\* invoked at most once.
AtMostOnce ==
    \A c \in DOMAIN calls :
        LET call == calls[c]
        IN  /\ \A i, j \in 1..Len(call.required) :
                   call.required[i].name = call.required[j].name => i = j
            /\ Len(call.ran) <= Len(call.required)
            /\ \A n \in Names :
                   Cardinality({i \in 1..Len(Invoked(call)) : Invoked(call)[i] = n}) <= 1

\* Two requested roots share a dependency, one of them lists it twice, and
\* every action of the call has run.
AtMostOnceReached ==
    \E c \in DOMAIN calls :
        LET call == calls[c]
        IN  /\ call.status = "resolved"
            /\ Len(call.target_names) = 2
            /\ \E r1, r2 \in Range(call.target_names), d \in Registered :
                   /\ r1 # r2 /\ d \notin {r1, r2}
                   /\ Has(r1) /\ Has(r2)
                   /\ Lookup(r1).depends = <<d, d>>
                   /\ d \in Range(Lookup(r2).depends)

\* A root named twice in target_names has run once.
AtMostOnceTwiceNamed ==
    \E c \in DOMAIN calls :
        LET call == calls[c]
        IN  /\ call.status = "resolved"
            /\ Len(call.target_names) = 2
            /\ call.target_names[1] = call.target_names[2]
            /\ Len(call.ran) = 1

\* Every requested name and every dependency met from the requested roots is
\* registered.
AllRegistered(target_names) ==
    /\ Range(target_names) \subseteq Registered
    /\ MissingDeps(Roots(target_names)) = {}

\* C8: when every requested root and every dependency is registered, the set
\* of targets whose action evaluate has invoked when it settles is exactly the
\* dependency closure of the requested roots.
ExactClosure ==
    \A c \in DOMAIN calls :
        LET call == calls[c]
        IN  (Settled(call) /\ AllRegistered(call.target_names))
            => Range(Invoked(call)) = Closure(Roots(call.target_names))

\* C8 as amended: the ordered list holds exactly the closure, only targets of
\* the closure are invoked, and all of them have been when evaluate resolves.
ExactClosureWhenResolved ==
    \A c \in DOMAIN calls :
        LET call == calls[c]
            closure == Closure(Roots(call.target_names))
        IN  (call.status # "idle" /\ AllRegistered(call.target_names))
            => /\ Range(NamesOf(call.required)) = closure
               /\ Range(Invoked(call)) \subseteq closure
               /\ call.status = "resolved" => Range(Invoked(call)) = closure

\* A resolved call for one root whose closure holds a second target and
\* leaves a third registered target out.
ExactClosureReached ==
    \E c \in DOMAIN calls :
        LET call == calls[c]
        IN  /\ call.status = "resolved"
            /\ Len(call.target_names) = 1
            /\ Len(call.ran) = 2
            /\ Cardinality(Registered) = 3

\* C9: evaluate called with an empty target_names that resolves has invoked
\* the action of every registered target exactly once, each dependency before
\* its dependents.
EmptyRequestRunsAll ==
    \A c \in DOMAIN calls :
        LET call == calls[c]
        IN  (call.status = "resolved" /\ call.target_names = << >>)
            => /\ Range(Invoked(call)) = Registered
               /\ Len(call.ran) = Cardinality(Registered)
               /\ \A i, j \in 1..Len(call.ran) :
                      Invoked(call)[j] \in Range(call.required[i].depends) => j < i

\* C10: while the action of a target with target_path is pending, from the
\* moment it is invoked, the working directory is target_path resolved
\* against the directory saved before the switch; for a target without
\* target_path it is that saved directory.
ScopedDuringAction ==
    \A c \in DOMAIN calls :
        LET call == calls[c]
            During(i) ==
                LET target_path == call.required[i].options.target_path
                    current_dir == call.ran[i].current_dir
                IN  IF target_path # NoPath
                    THEN Resolve(current_dir, target_path)
                    ELSE current_dir
        IN  /\ \A i \in 1..Len(call.ran) : call.ran[i].at = During(i)
            /\ \A p \in call.pending :
                   /\ cwd = During(p.index)
                   /\ call.ran[p.index].current_dir = p.current_dir

\* An action is pending in a directory other than the one evaluate was
\* entered in, after an earlier action of the call ran in a third one.
ScopedDuringActionReached ==
    \E c \in DOMAIN calls :
        LET call == calls[c]
        IN  /\ Len(call.ran) = 2
            /\ \E p \in call.pending :
                   /\ p.index = 2 /\ p.kind = "promise"
                   /\ cwd # p.current_dir
                   /\ call.ran[1].at # cwd
                   /\ call.ran[1].at # call.ran[1].current_dir

CycleReachable(target_names) ==
    \E n \in Closure(Roots(target_names)) : n \in Closure(DependsOf(n))

RootScanOrder ==
    \A c \in DOMAIN calls :
        LET call == calls[c]
            scan == PickEach(call.target_names, {})
        IN  (/\ call.status # "idle"
             /\ call.target_names # << >>
             /\ AllRegistered(call.target_names))
            => /\ NamesOf(call.required) = NamesOf(scan.rtn)
               /\ \A i, j \in 1..Len(call.target_names) :
                      LET first == call.target_names[i]
                          second == call.target_names[j]
                      IN  (/\ i < j
                           /\ first \notin Closure({second})
                           /\ second \notin Closure({first}))
                          => \E k, l \in 1..Len(call.required) :
                                 /\ k < l
                                 /\ call.required[k].name = first
                                 /\ call.required[l].name = second

\* C15: every action of a call is invoked after the action before it has
\* settled and its directory has been restored: the directory saved before a
\* target's own switch is the one evaluate was entered in.
RestorePrecedesNext ==
    \A c \in DOMAIN calls :
        LET call == calls[c]
        IN  \A i \in 1..Len(call.ran) :
                /\ call.ran[i].current_dir = call.entry_cwd
                /\ i > 1 => (i - 1) \in call.fulfilled

\* The second action of a call was invoked after the first had run in another
\* directory than the one evaluate was entered in, and both targets switch.
RestorePrecedesNextReached ==
    \E c \in DOMAIN calls :
        LET call == calls[c]
        IN  /\ Len(call.ran) >= 2
            /\ call.ran[1].at # call.entry_cwd
            /\ call.ran[2].at # call.entry_cwd
            /\ call.ran[2].at # call.ran[1].at

\* C16: the list of a call is fixed when evaluate is called, from the records
\* the registry holds at that moment; a target() call made while the call is
\* in flight changes neither the list nor the action invoked for a target of
\* it, and is seen by an evaluate called afterwards.
RegistrySnapshot ==
    [][\A c \in DOMAIN calls :
          /\ calls[c].status # "idle"
             => /\ calls'[c].required = calls[c].required
                /\ calls'[c].target_names = calls[c].target_names
          /\ Len(calls'[c].ran) > Len(calls[c].ran)
             => LET k == Len(calls'[c].ran)
                IN  /\ k = Len(calls[c].ran) + 1
                    /\ calls'[c].ran[k].action = calls[c].required[k].action
          /\ (calls[c].status = "idle" /\ calls'[c].status = "running")
             => /\ NamesOf(calls'[c].required)
                     = NamesOf(Required(calls'[c].target_names).rtn)
                /\ \A i \in 1..Len(calls'[c].required) :
                       calls'[c].required[i] = Lookup(calls'[c].required[i].name)
      ]_vars

\* The first call ran the record of a name that an action of it replaced
\* meanwhile, and the second call ran the record that replaced it.
RegistrySnapshotReached ==
    /\ Settled(calls[1])
    /\ \E i \in 1..Len(calls[1].ran), j \in 1..Len(calls[2].ran) :
           /\ calls[1].required[i].name = calls[2].required[j].name
           /\ calls[1].ran[i].action < calls[2].ran[j].action
           /\ calls[2].ran[j].action = Lookup(calls[2].required[j].name).action

\* Every target of the call's list has target_path set.
AllSwitch(call) ==
    \A i \in 1..Len(call.required) : call.required[i].options.target_path # NoPath

\* C17: when a second evaluate was started while an action of the first was
\* pending and the targets of both have target_path, then once both calls
\* have settled the working directory is the one the first call was entered
\* in, and every action ran in its target_path resolved against that
\* directory.  (Stated for calls none of whose actions threw synchronously.)
OverlapKeepsScope ==
    (/\ Settled(calls[1]) /\ Settled(calls[2])
     /\ calls[1].ran # << >> /\ calls[2].ran # << >>
     /\ AllSwitch(calls[1]) /\ AllSwitch(calls[2])
     /\ calls[1].thrown_how # "throw" /\ calls[2].thrown_how # "throw")
    => /\ cwd = calls[1].entry_cwd
       /\ \A c \in {1, 2} : \A i \in 1..Len(calls[c].ran) :
              calls[c].ran[i].at
                  = Resolve(calls[1].entry_cwd,
                            calls[c].required[i].options.target_path)

\* C18: when the link of a target runs and its target_path cannot be entered,
\* the action is not invoked, the working directory stays as it was, and
\* evaluate rejects with the error of the switch; after that no target of the
\* call runs.
FailedSwitch ==
    [][\A c \in DOMAIN calls :
          LET call == calls[c]
              i == Len(call.ran) + 1
          IN  /\ (/\ call.status = "running"
                  /\ call.pending = {}
                  /\ i <= Len(call.required)
                  /\ call.required[i].options.target_path # NoPath
                  /\ Resolve(cwd, call.required[i].options.target_path) \notin Dirs
                  /\ calls'[c] # call)
                 => /\ calls'[c].status = "rejected"
                    /\ calls'[c].error = ChdirError
                    /\ calls'[c].ran = call.ran
                    /\ calls'[c].pending = {}
                    /\ cwd' = cwd
              /\ call.error = ChdirError
                 => /\ calls'[c] = call
                    /\ cwd' = cwd
      ]_vars

\* The switch of the second of three targets failed after the first had run
\* in its own directory.
FailedSwitchReached ==
    \E c \in DOMAIN calls :
        LET call == calls[c]
        IN  /\ call.status = "rejected"
            /\ call.error = ChdirError
            /\ Len(call.required) = 3
            /\ Len(call.ran) = 1
            /\ call.ran[1].at # call.entry_cwd
            /\ cwd = call.entry_cwd

====
